---- MODULE Spec2Model ----
(***************************************************************************)
(* Model of the gamebook engine: the traversal loop GameState.Run          *)
(* (src/main.go) driving the Lone Wolf rule system (src/lonewolf2.go):     *)
(* story, encounter, random_roll and end nodes, the combat result table    *)
(* (CRT) and the combat round.                                             *)
(*                                                                         *)
(* Every blocking read of the input stream and every draw from the random  *)
(* source is one step of the model, together with the code that runs up to *)
(* the next read or draw.  The locals of a handler (enemyIdx,              *)
(* randomNumber, key, input) keep their last value until Run moves on:     *)
(* the action prompt clears the first three, the next dispatch the last.   *)
(***************************************************************************)
EXTENDS Integers, Sequences, FiniteSets, TLC

VARIABLES
    CurrentNodeID,  \* GameState.CurrentNodeID
    Player,         \* *GameState.Player
    Enemies,        \* the Enemy objects the nodes' []*Enemy slices point to
    pc,             \* position of the session thread
    node,           \* id of Run's local `node`
    enemyIdx,       \* index of the range loop over node.Enemies (1-based)
    randomNumber,   \* handleRandomNode's local randomNumber
    input,          \* last line read from gs.Reader
    key,            \* makeCombatResult's local key (last CRT lookup)
    err,            \* error returned by HandleNode / reported by Run
    visits          \* number of iterations of Run's loop so far

vars == <<CurrentNodeID, Player, Enemies, pc, node, enemyIdx, randomNumber,
          input, key, err, visits>>

----------------------------------------------------------------------------
(* Bounds of the model *)

\* iterations of Run's loop that are explored
MaxVisits == 4


----------------------------------------------------------------------------
(* Input lines: sequences of characters, as read by ReadString('\n') *)

Digits == {"0", "1", "2", "3", "4", "5", "6", "7", "8", "9"}

DigitVal(c) ==
    CASE c = "0" -> 0 [] c = "1" -> 1 [] c = "2" -> 2 [] c = "3" -> 3
      [] c = "4" -> 4 [] c = "5" -> 5 [] c = "6" -> 6 [] c = "7" -> 7
      [] c = "8" -> 8 [] c = "9" -> 9

Space == {" ", "\n", "\t", "\r"}

RECURSIVE TrimLeft(_)
TrimLeft(s) ==
    IF s # <<>> /\ Head(s) \in Space THEN TrimLeft(Tail(s)) ELSE s

RECURSIVE TrimRight(_)
TrimRight(s) ==
    IF s # <<>> /\ s[Len(s)] \in Space
    THEN TrimRight(SubSeq(s, 1, Len(s) - 1)) ELSE s

\* strings.TrimSpace
TrimSpace(s) == TrimRight(TrimLeft(s))

RECURSIVE DigitsVal(_)
DigitsVal(s) ==
    IF s = <<>> THEN 0
    ELSE 10 * DigitsVal(SubSeq(s, 1, Len(s) - 1)) + DigitVal(s[Len(s)])

\* strconv.Atoi: an optional sign followed by one or more decimal digits
Atoi(s) ==
    LET signed == s # <<>> /\ Head(s) \in {"+", "-"}
        body   == IF signed THEN Tail(s) ELSE s
        ok     == body # <<>> /\ \A i \in 1..Len(body) : body[i] \in Digits
    IN  IF ~ok THEN [ok |-> FALSE, val |-> 0]
        ELSE [ok |-> TRUE,
              val |-> IF signed /\ Head(s) = "-" THEN 0 - DigitsVal(body)
                      ELSE DigitsVal(body)]

\* the lines the player types in the explored sessions
Inputs ==
    { <<"1", "\n">>, <<"2", "\n">>, <<"3", "\n">>, <<"4", "\n">>,
      <<"5", "\n">>, <<"6", "\n">>, <<"0", "\n">>, <<"-", "1", "\n">>,
      <<" ", "+", "2", " ", "\n">>, <<"1", "2", "\n">>, <<"2", "a", "\n">>,
      <<>> }

----------------------------------------------------------------------------
(* The story graph (GameConfig.Nodes, in authored order) *)

\* a nil *string is <<>>, a pointer to the string s is <<s>>
Nil == <<>>

Choice(desc, next, discipline, item) ==
    [Description |-> desc, NextNodeID |-> next,
     RequiredDiscipline |-> discipline, RequiredItem |-> item]

Outcome(cond, condInt, next) ==
    [Condition |-> cond, ConditionInt |-> condInt, NextNodeID |-> next]

Enemy(name, hp, cs) == [Name |-> name, HP |-> hp, CS |-> cs]

NodeOf(id, type, choices, enemies, outcomes) ==
    [ID |-> id, Type |-> type, Choices |-> choices, Enemies |-> enemies,
     Outcomes |-> outcomes]

Config ==
    << NodeOf("start", "story",
              << Choice("path", "forest", Nil, Nil),
                 Choice("track", "cave", <<"Tracking">>, Nil),
                 Choice("unlock", "gate", Nil, <<"Key">>),
                 Choice("sneak", "vault", <<"Tracking">>, <<"Key">>),
                 Choice("jump", "nowhere", Nil, Nil),
                 Choice("trade", "odd", Nil, Nil) >>,
              <<>>, <<>>),
       NodeOf("forest", "encounter", <<>>,
              << Enemy("Giak", 5, 10), Enemy("Gourgaz", 4, 30) >>,
              << Outcome("combat_lost", <<>>, "game_over"),
                 Outcome("combat_won", <<>>, "roll"),
                 Outcome("combat_won", <<>>, "finish") >>),
       NodeOf("cave", "encounter", <<>>,
              << Enemy("Kraan", 5, 10) >>,
              << Outcome("combat_won", <<>>, "fork") >>),
       NodeOf("roll", "random_roll", <<>>, <<>>,
              << Outcome("", <<0, 1, 2, 3, 4>>, "forest"),
                 Outcome("", <<5, 6, 7, 8, 9>>, "finish") >>),
       NodeOf("fork", "random_roll", <<>>, <<>>,
              << Outcome("", <<0, 1, 2, 3>>, "finish"),
                 Outcome("", <<3, 4, 5, 6, 7, 8>>, "game_over"),
                 Outcome("", <<8, 3>>, "odd") >>),
       NodeOf("gate", "encounter", <<>>,
              << Enemy("Guard", 3, 15) >>,
              << Outcome("combat_lost", <<>>, "game_over") >>),
       NodeOf("vault", "story", <<>>, <<>>, <<>>),
       NodeOf("odd", "shop", <<>>, <<>>, <<>>),
       NodeOf("finish", "end", <<>>, <<>>, <<>>),
       NodeOf("game_over", "end", <<>>, <<>>, <<>>) >>

NodeIDs == { Config[i].ID : i \in 1..Len(Config) }

\* nodeMap of NewGameState: the last node authored under an id wins
Nodes ==
    [id \in NodeIDs |->
        LET last == CHOOSE i \in 1..Len(Config) :
                        /\ Config[i].ID = id
                        /\ \A j \in 1..Len(Config) : Config[j].ID = id => j <= i
        IN  Config[last]]

----------------------------------------------------------------------------
(* The combat result table, as loaded by Initialize *)

KeyPair(randNum, comRatio) == [RandNum |-> randNum, ComRatio |-> comRatio]

DamagePair(enemyLoss, playerLoss, isKilled) ==
    [EnemyLoss |-> enemyLoss, PlayerLoss |-> playerLoss, IsKilled |-> isKilled]

\* the keys the authored table has an entry for: it has none for roll 7,
\* and none for roll 0 against a stronger enemy
CRTKeys ==
    { KeyPair(r, c) : r \in 0..9, c \in -11..11 } \
        ({ KeyPair(7, c) : c \in -11..11 } \cup { KeyPair(0, c) : c \in -11..-1 })

\* the authored entries: the better the roll and the skill difference, the
\* more the enemy loses and the less the player does
CRT ==
    [k \in CRTKeys |->
        LET score == k.RandNum + (k.ComRatio \div 3)
        IN  DamagePair(IF score >= 4 THEN 5 ELSE IF score >= 1 THEN 2 ELSE 0,
                       IF score >= 8 THEN 0 ELSE IF score >= 2 THEN 2 ELSE 6,
                       k.RandNum = 9 /\ k.ComRatio >= 8)]

----------------------------------------------------------------------------
(* Pure helpers of the rule system *)

\* normalizeCombatRatio without its first test
normalizeCombatRatio_NoLowerClamp(ratio) ==
    IF ratio >= 11 THEN 11 ELSE ratio

\* normalizeCombatRatio
normalizeCombatRatio(ratio) ==
    IF ratio <= -11 THEN -11
    ELSE IF ratio >= 11 THEN 11
    ELSE ratio

\* the key makeCombatResult looks up, for the value randNum drawn from lw.Rand
combatKey(playerCS, enemyCS, randNum) ==
    KeyPair(randNum, normalizeCombatRatio(playerCS - enemyCS))

\* makeCombatResult reading IsKilled: a killing entry takes every hit point
makeCombatResult_KillsOnFlag(playerCS, enemyCS, randNum) ==
    LET k == combatKey(playerCS, enemyCS, randNum)
    IN  IF k \notin DOMAIN CRT
        THEN DamagePair(0, 0, FALSE)
        ELSE IF CRT[k].IsKilled
             THEN DamagePair(99, CRT[k].PlayerLoss, TRUE)
             ELSE CRT[k]

\* makeCombatResult handing the two losses back in each other's place
makeCombatResult_Swapped(playerCS, enemyCS, randNum) ==
    LET k == combatKey(playerCS, enemyCS, randNum)
    IN  IF k \notin DOMAIN CRT
        THEN DamagePair(0, 0, FALSE)
        ELSE DamagePair(CRT[k].PlayerLoss, CRT[k].EnemyLoss, CRT[k].IsKilled)

\* makeCombatResult, for the value randNum drawn from lw.Rand
makeCombatResult(playerCS, enemyCS, randNum) ==
    LET k == combatKey(playerCS, enemyCS, randNum)
    IN  IF k \notin DOMAIN CRT
        THEN DamagePair(0, 0, FALSE)
        ELSE CRT[k]

\* contains_str
contains_str(slice, str) == \E i \in 1..Len(slice) : slice[i] = str

\* contains_int
contains_int(slice, number) == \E i \in 1..Len(slice) : slice[i] = number

\* read of a map[string]bool: the zero value for an absent key
MapGet(m, k) == IF k \in DOMAIN m THEN m[k] ELSE FALSE

\* the chain of handleStoryNode without its first branch
choiceAdvances_NoUngatedBranch(choice, player) ==
    \/ /\ choice.RequiredDiscipline # Nil
       /\ MapGet(player.KaiDisciplines, choice.RequiredDiscipline[1])
    \/ /\ choice.RequiredItem # Nil
       /\ contains_str(player.Items, choice.RequiredItem[1])

\* the if / else-if chain of handleStoryNode that decides whether the
\* selected choice sets CurrentNodeID
choiceAdvances(choice, player) ==
    LET requiredDiscipline ==
            IF choice.RequiredDiscipline # Nil
            THEN choice.RequiredDiscipline[1] ELSE ""
        requiredItem ==
            IF choice.RequiredItem # Nil THEN choice.RequiredItem[1] ELSE ""
    IN  IF choice.RequiredDiscipline = Nil /\ choice.RequiredItem = Nil
        THEN TRUE
        ELSE IF /\ choice.RequiredDiscipline # Nil
                /\ MapGet(player.KaiDisciplines, requiredDiscipline)
        THEN TRUE
        ELSE IF /\ choice.RequiredItem # Nil
                /\ contains_str(player.Items, requiredItem)
        THEN TRUE
        ELSE FALSE

\* the menu number typed, or 0 when the line is rejected
\* (err != nil || choiceNum < 1 || choiceNum > n)
menuSelection(line, n) ==
    LET r == Atoi(TrimSpace(line))
    IN  IF ~r.ok \/ r.val < 1 \/ r.val > n THEN 0 ELSE r.val

\* the checks after a blow without the test of the player's hit points
roundOutcome_NoPlayerCheck(enemyHP, playerHP) ==
    IF enemyHP <= 0 THEN "enemy_defeated" ELSE "continue"

\* the checks after a blow with the break taken whatever the enemy's hit points
roundOutcome_BreakAlways(enemyHP, playerHP) ==
    "enemy_defeated"

\* the checks after a blow with the enemy tested for < 0 instead of <= 0
roundOutcome_StrictEnemyTest(enemyHP, playerHP) ==
    IF enemyHP < 0 THEN "enemy_defeated"
    ELSE IF playerHP <= 0 THEN "player_defeated"
    ELSE "continue"

\* the two checks made after a blow, in the order the code makes them
roundOutcome(enemyHP, playerHP) ==
    IF enemyHP <= 0 THEN "enemy_defeated"
    ELSE IF playerHP <= 0 THEN "player_defeated"
    ELSE "continue"

\* the scan for combat_won keeping the last outcome found instead of
\* returning at the first
combatWonIndex_Last(outcomes) ==
    IF \E i \in 1..Len(outcomes) : outcomes[i].Condition = "combat_won"
    THEN CHOOSE i \in 1..Len(outcomes) :
            /\ outcomes[i].Condition = "combat_won"
            /\ \A j \in (i + 1)..Len(outcomes) :
                  outcomes[j].Condition # "combat_won"
    ELSE 0

\* index of the first outcome tagged combat_won, 0 when there is none
combatWonIndex(outcomes) ==
    IF \E i \in 1..Len(outcomes) : outcomes[i].Condition = "combat_won"
    THEN CHOOSE i \in 1..Len(outcomes) :
            /\ outcomes[i].Condition = "combat_won"
            /\ \A j \in 1..(i - 1) : outcomes[j].Condition # "combat_won"
    ELSE 0

----------------------------------------------------------------------------
(* Initial state *)

GameOver == "game_over"

NoError == "nil"

\* abilities, inventory and meals the explored sessions start with
Profiles ==
    { [KaiDisciplines |-> [d \in {} |-> TRUE], Items |-> <<>>, MEAL |-> 0],
      [KaiDisciplines |-> [d \in {"Tracking"} |-> TRUE],
       Items |-> <<"key", "Map">>, MEAL |-> 0],
      [KaiDisciplines |-> [d \in {"Tracking", "Healing"} |-> d = "Healing"],
       Items |-> <<"Key">>, MEAL |-> 1],
      [KaiDisciplines |-> [d \in {"Tracking"} |-> TRUE],
       Items |-> <<"Map", "Key">>, MEAL |-> 1] }

\* the profile that passes every gate of the graph
OpenProfiles ==
    { p \in Profiles : MapGet(p.KaiDisciplines, "Tracking")
                          /\ contains_str(p.Items, "Key") }

PlayerOf(hp, cs, p) ==
    [HP |-> hp, CS |-> cs, GOLD |-> 0, MEAL |-> p.MEAL,
     KaiDisciplines |-> p.KaiDisciplines, Weapon |-> <<>>, Armor |-> <<>>,
     Items |-> p.Items]

\* every profile at combat skill 15, every combat skill with the open profile
InitPlayers ==
    { PlayerOf(hp, 15, p) : hp \in {2, 8}, p \in Profiles }
        \cup { PlayerOf(hp, cs, p) :
                  hp \in {2, 8}, cs \in {4, 21, 40}, p \in OpenProfiles }

Init ==
    /\ CurrentNodeID = Config[1].ID
    /\ Player \in InitPlayers
    /\ Enemies = [id \in NodeIDs |-> Nodes[id].Enemies]
    /\ pc = "run"
    /\ node = ""
    /\ enemyIdx = 0
    /\ randomNumber = 0
    /\ input = <<>>
    /\ key = KeyPair(0, 0)
    /\ err = NoError
    /\ visits = 0

----------------------------------------------------------------------------
(* GameState.Run and LoneWolfSystem.HandleNode *)

\* what Run does with the error HandleNode returned for a node that is not
\* of type end: break on an error, otherwise go on to the action prompt
afterHandle(e) == IF e # NoError THEN "halted" ELSE "action"

\* Run going on to the action prompt when the lookup fails
RunNodeMissing_Continue ==
    /\ pc = "run"
    /\ CurrentNodeID \notin DOMAIN Nodes
    /\ pc' = "action"
    /\ err' = "node not found"
    /\ UNCHANGED <<CurrentNodeID, Player, Enemies, node, enemyIdx,
                   randomNumber, input, key, visits>>

\* Run: gs.Nodes has no node under CurrentNodeID
RunNodeMissing ==
    /\ pc = "run"
    /\ CurrentNodeID \notin DOMAIN Nodes
    /\ pc' = "halted"
    /\ err' = "node not found"
    /\ UNCHANGED <<CurrentNodeID, Player, Enemies, node, enemyIdx,
                   randomNumber, input, key, visits>>

\* Run's lookup succeeded: HandleNode is called on a copy of the node
Dispatch(type) ==
    /\ pc = "run"
    /\ visits < MaxVisits
    /\ CurrentNodeID \in DOMAIN Nodes
    /\ Nodes[CurrentNodeID].Type = type
    /\ node' = CurrentNodeID
    /\ visits' = visits + 1
    /\ input' = <<>>

\* handleStoryNode without the test for an empty list of choices
EnterStory_NoEmptyCheck ==
    /\ Dispatch("story")
    /\ pc' = "story"
    /\ UNCHANGED <<CurrentNodeID, err, Player, Enemies, enemyIdx,
                   randomNumber, key>>

\* handleStoryNode up to its first read
EnterStory ==
    /\ Dispatch("story")
    /\ IF Len(Nodes[CurrentNodeID].Choices) = 0
       THEN /\ CurrentNodeID' = GameOver
            /\ err' = "no choices available"
            /\ pc' = afterHandle("no choices available")
       ELSE /\ pc' = "story"
            /\ UNCHANGED <<CurrentNodeID, err>>
    /\ UNCHANGED <<Player, Enemies, enemyIdx, randomNumber, key>>

\* the scan of node.Outcomes that ends handleEncounterNode
encounterExit(outcomes) ==
    LET i == combatWonIndex(outcomes)
    IN  IF i # 0
        THEN [next |-> outcomes[i].NextNodeID, err |-> NoError]
        ELSE [next |-> GameOver, err |-> "no combat_won outcome found"]

\* handleEncounterNode up to the first blow
EnterEncounter ==
    /\ Dispatch("encounter")
    /\ IF Len(Nodes[CurrentNodeID].Enemies) = 0
       THEN LET exit == encounterExit(Nodes[CurrentNodeID].Outcomes)
            IN  /\ CurrentNodeID' = exit.next
                /\ err' = exit.err
                /\ pc' = afterHandle(exit.err)
                /\ UNCHANGED enemyIdx
       ELSE /\ enemyIdx' = 1
            /\ pc' = "combat"
            /\ UNCHANGED <<CurrentNodeID, err>>
    /\ UNCHANGED <<Player, Enemies, randomNumber, key>>

\* handleRandomNode up to its first read: the roll is drawn here
EnterRandom ==
    /\ Dispatch("random_roll")
    /\ \E r \in 0..9 : randomNumber' = r
    /\ pc' = "random"
    /\ UNCHANGED <<CurrentNodeID, Player, Enemies, enemyIdx, key, err>>

\* Run without its test of node.Type after HandleNode returned
HandleEnd_FallThrough ==
    /\ Dispatch("end")
    /\ pc' = "action"
    /\ UNCHANGED <<CurrentNodeID, Player, Enemies, enemyIdx, randomNumber,
                   key, err>>

\* HandleNode returns nil for an end node and Run leaves its loop
HandleEnd ==
    /\ Dispatch("end")
    /\ pc' = "ended"
    /\ UNCHANGED <<CurrentNodeID, Player, Enemies, enemyIdx, randomNumber,
                   key, err>>

\* HandleNode returning nil in its default case
HandleUnknown_Silent ==
    /\ CurrentNodeID \in DOMAIN Nodes
    /\ Nodes[CurrentNodeID].Type \notin {"story", "encounter", "random_roll", "end"}
    /\ Dispatch(Nodes[CurrentNodeID].Type)
    /\ pc' = afterHandle(NoError)
    /\ UNCHANGED <<CurrentNodeID, Player, Enemies, enemyIdx, randomNumber,
                   key, err>>

\* HandleNode's default case
HandleUnknown ==
    /\ CurrentNodeID \in DOMAIN Nodes
    /\ Nodes[CurrentNodeID].Type \notin {"story", "encounter", "random_roll", "end"}
    /\ Dispatch(Nodes[CurrentNodeID].Type)
    /\ err' = "unknown node type"
    /\ pc' = afterHandle("unknown node type")
    /\ UNCHANGED <<CurrentNodeID, Player, Enemies, enemyIdx, randomNumber,
                   key>>

----------------------------------------------------------------------------
(* handleStoryNode: one iteration of the prompt loop *)

\* the prompt loop taking the required item away from the player when an
\* item-gated choice is accepted
StoryPrompt_ConsumesItem(line) ==
    /\ pc = "story"
    /\ input' = line
    /\ LET choices   == Nodes[node].Choices
           choiceNum == menuSelection(line, Len(choices))
       IN  IF choiceNum # 0 /\ choiceAdvances(choices[choiceNum], Player)
           THEN /\ CurrentNodeID' = choices[choiceNum].NextNodeID
                /\ pc' = afterHandle(NoError)
                /\ Player' =
                      IF choices[choiceNum].RequiredItem # Nil
                      THEN [Player EXCEPT !.Items =
                              SelectSeq(@, LAMBDA it :
                                  it # choices[choiceNum].RequiredItem[1])]
                      ELSE Player
           ELSE UNCHANGED <<CurrentNodeID, pc, Player>>
    /\ UNCHANGED <<Enemies, node, enemyIdx, randomNumber, key, err, visits>>

StoryPrompt(line) ==
    /\ pc = "story"
    /\ input' = line
    /\ LET choices   == Nodes[node].Choices
           choiceNum == menuSelection(line, Len(choices))
       IN  IF choiceNum # 0 /\ choiceAdvances(choices[choiceNum], Player)
           THEN /\ CurrentNodeID' = choices[choiceNum].NextNodeID
                /\ pc' = afterHandle(NoError)
           ELSE UNCHANGED <<CurrentNodeID, pc>>
    /\ UNCHANGED <<Player, Enemies, node, enemyIdx, randomNumber, key, err,
                   visits>>

----------------------------------------------------------------------------
(* handleEncounterNode: one blow, for the value randNum drawn from lw.Rand *)

CombatRound(randNum) ==
    /\ pc = "combat"
    /\ key' = combatKey(Player.CS, Enemies[node][enemyIdx].CS, randNum)
    /\ LET enemy    == Enemies[node][enemyIdx]
           result   == makeCombatResult(Player.CS, enemy.CS, randNum)
           enemyHP  == enemy.HP - result.EnemyLoss
           playerHP == Player.HP - result.PlayerLoss
           outcome  == roundOutcome(enemyHP, playerHP)
           exit     == encounterExit(Nodes[node].Outcomes)
       IN  /\ Enemies' = [Enemies EXCEPT ![node][enemyIdx].HP = enemyHP]
           /\ Player' = [Player EXCEPT !.HP = playerHP]
           /\ CASE outcome = "enemy_defeated" /\ enemyIdx < Len(Enemies[node]) ->
                     /\ enemyIdx' = enemyIdx + 1
                     /\ UNCHANGED <<CurrentNodeID, pc, err>>
                [] outcome = "enemy_defeated" /\ enemyIdx >= Len(Enemies[node]) ->
                     /\ CurrentNodeID' = exit.next
                     /\ err' = exit.err
                     /\ pc' = afterHandle(exit.err)
                     /\ UNCHANGED enemyIdx
                [] outcome = "player_defeated" ->
                     /\ CurrentNodeID' = GameOver
                     /\ err' = "player defeated"
                     /\ pc' = afterHandle("player defeated")
                     /\ UNCHANGED enemyIdx
                [] OTHER ->
                     UNCHANGED <<CurrentNodeID, pc, err, enemyIdx>>
    /\ UNCHANGED <<node, randomNumber, input, visits>>

----------------------------------------------------------------------------
(* handleRandomNode: one iteration of the prompt loop *)

\* the prompt loop drawing the roll again after a refused selection
RandomPrompt_Redraw(line) ==
    /\ pc = "random"
    /\ input' = line
    /\ LET outcomes  == Nodes[node].Outcomes
           choiceNum == menuSelection(line, Len(outcomes))
       IN  IF /\ choiceNum # 0
              /\ contains_int(outcomes[choiceNum].ConditionInt, randomNumber)
           THEN /\ CurrentNodeID' = outcomes[choiceNum].NextNodeID
                /\ pc' = afterHandle(NoError)
                /\ UNCHANGED randomNumber
           ELSE /\ \E r \in 0..9 : randomNumber' = r
                /\ UNCHANGED <<CurrentNodeID, pc>>
    /\ UNCHANGED <<Player, Enemies, node, enemyIdx, key, err, visits>>

\* the prompt loop taking the first outcome that contains the roll, whatever
\* number was selected
RandomPrompt_FirstMatch(line) ==
    /\ pc = "random"
    /\ input' = line
    /\ LET outcomes  == Nodes[node].Outcomes
           choiceNum == menuSelection(line, Len(outcomes))
           matching  == { i \in 1..Len(outcomes) :
                            contains_int(outcomes[i].ConditionInt, randomNumber) }
       IN  IF choiceNum # 0 /\ matching # {}
           THEN /\ CurrentNodeID' =
                      outcomes[CHOOSE i \in matching :
                                  \A j \in matching : i <= j].NextNodeID
                /\ pc' = afterHandle(NoError)
           ELSE UNCHANGED <<CurrentNodeID, pc>>
    /\ UNCHANGED <<Player, Enemies, node, enemyIdx, randomNumber, key, err,
                   visits>>

RandomPrompt(line) ==
    /\ pc = "random"
    /\ input' = line
    /\ LET outcomes  == Nodes[node].Outcomes
           choiceNum == menuSelection(line, Len(outcomes))
       IN  IF /\ choiceNum # 0
              /\ contains_int(outcomes[choiceNum].ConditionInt, randomNumber)
           THEN /\ CurrentNodeID' = outcomes[choiceNum].NextNodeID
                /\ pc' = afterHandle(NoError)
           ELSE UNCHANGED <<CurrentNodeID, pc>>
    /\ UNCHANGED <<Player, Enemies, node, enemyIdx, randomNumber, key, err,
                   visits>>

----------------------------------------------------------------------------
(* Run: the action prompt between two nodes *)

Line(word) == word \o <<"\n">>

Skip == <<"s", "k", "i", "p">>
Heal == <<"h", "e", "a", "l">>
EatMeal == <<"e", "a", "t", "_", "m", "e", "a", "l">>

ActionLines ==
    { Line(Skip), <<" ">> \o Line(Skip), Line(Heal), Line(EatMeal),
      Line(<<"S">> \o Tail(Skip)) }

\* UpdatePlayer of the rule system: the command is checked against the
\* player's abilities and inventory before it takes effect
UpdatePlayer(player, action) ==
    IF action = Heal /\ MapGet(player.KaiDisciplines, "Healing")
    THEN [player EXCEPT !.HP = @ + 1]
    ELSE IF action = EatMeal /\ player.MEAL > 0
    THEN [player EXCEPT !.MEAL = @ - 1]
    ELSE player

\* the action step sending the session back to the first authored node
PlayerAction_Restart(line) ==
    /\ pc = "action"
    /\ input' = line
    /\ LET action == TrimSpace(line)
       IN  IF action # Skip
           THEN Player' = UpdatePlayer(Player, action)
           ELSE UNCHANGED Player
    /\ CurrentNodeID' = Config[1].ID
    /\ pc' = "run"
    /\ enemyIdx' = 0
    /\ randomNumber' = 0
    /\ key' = KeyPair(0, 0)
    /\ UNCHANGED <<Enemies, node, err, visits>>

PlayerAction(line) ==
    /\ pc = "action"
    /\ input' = line
    /\ LET action == TrimSpace(line)
       IN  IF action # Skip
           THEN Player' = UpdatePlayer(Player, action)
           ELSE UNCHANGED Player
    /\ pc' = "run"
    /\ enemyIdx' = 0
    /\ randomNumber' = 0
    /\ key' = KeyPair(0, 0)
    /\ UNCHANGED <<CurrentNodeID, Enemies, node, err, visits>>

----------------------------------------------------------------------------

Next ==
    \/ RunNodeMissing
    \/ EnterStory
    \/ EnterEncounter
    \/ EnterRandom
    \/ HandleEnd
    \/ HandleUnknown
    \/ \E line \in Inputs : StoryPrompt(line)
    \/ \E randNum \in 0..9 : CombatRound(randNum)
    \/ \E line \in Inputs : RandomPrompt(line)
    \/ \E line \in ActionLines : PlayerAction(line)

Spec == Init /\ [][Next]_vars

----------------------------------------------------------------------------
(* Properties of the encounter *)

\* the enemy the current blow is struck at
currentEnemy == Enemies[node][enemyIdx]

\* C1: player defeat takes precedence over a simultaneous enemy defeat, so
\* the player's hit points are <= 0 only in a session that has ended at the
\* game-over sentinel with the player reported defeated: no state in which
\* another blow, a combat_won transition or a prompt follows.
C1_PlayerDefeatTakesPrecedence ==
    Player.HP <= 0 =>
        /\ pc = "halted"
        /\ CurrentNodeID = GameOver
        /\ err = "player defeated"

\* C2: a blow that leaves the player at <= 0 hit points and the current
\* enemy alive sets the current node id to the game-over sentinel and ends
\* the session in the same step, every later enemy of the node keeps its hit
\* points, and nothing changes once the session has ended that way.
C2_PlayerDefeatAborts ==
    [][ /\ ( /\ pc = "combat"
             /\ Player'.HP <= 0
             /\ Enemies'[node][enemyIdx].HP > 0 )
           => /\ CurrentNodeID' = GameOver
              /\ pc' = "halted"
              /\ \A j \in (enemyIdx + 1)..Len(Enemies[node]) :
                    Enemies'[node][j] = Enemies[node][j]
        /\ (pc = "halted" /\ err = "player defeated") => UNCHANGED vars
      ]_vars

\* a later enemy is still waiting when the player falls to a living enemy
C2_Witness ==
    /\ pc = "halted"
    /\ err = "player defeated"
    /\ Player.HP <= 0
    /\ CurrentNodeID = GameOver
    /\ currentEnemy.HP > 0
    /\ enemyIdx < Len(Enemies[node])
    /\ Enemies[node][enemyIdx + 1].HP = Nodes[node].Enemies[enemyIdx + 1].HP

\* C3: only the current enemy of the node being handled ever loses hit
\* points, and only when every enemy authored before it is at <= 0; an
\* encounter is left without error only with every enemy of the node at
\* <= 0, and then for the target of an outcome tagged combat_won.
C3_EnemiesInAuthoredOrder ==
    [][ /\ \A id \in NodeIDs : \A j \in 1..Len(Enemies[id]) :
              Enemies'[id][j] # Enemies[id][j]
                  => /\ pc = "combat"
                     /\ id = node
                     /\ j = enemyIdx
                     /\ \A i \in 1..(j - 1) : Enemies[id][i].HP <= 0
        /\ ( /\ pc \in {"run", "combat"}
             /\ pc' = "action"
             /\ Nodes[node'].Type = "encounter" )
           => /\ \A j \in 1..Len(Enemies'[node']) : Enemies'[node'][j].HP <= 0
              /\ \E o \in 1..Len(Nodes[node'].Outcomes) :
                    /\ Nodes[node'].Outcomes[o].Condition = "combat_won"
                    /\ CurrentNodeID' = Nodes[node'].Outcomes[o].NextNodeID
      ]_vars

\* an undefeated player has beaten both enemies of the forest
C3_Witness ==
    /\ pc = "action"
    /\ node = "forest"
    /\ Player.HP > 0
    /\ enemyIdx = 2
    /\ \A j \in 1..Len(Enemies[node]) : Enemies[node][j].HP <= 0
    /\ CurrentNodeID = "roll"

\* the clamp of the skill difference onto -11..11, as the table is keyed
clampedRatio(playerCS, enemyCS) ==
    LET d == playerCS - enemyCS
    IN  IF d < -11 THEN -11 ELSE IF d > 11 THEN 11 ELSE d

\* C4: when the table has an entry for the roll drawn and the clamped skill
\* difference, the blow subtracts exactly that entry's EnemyLoss from the
\* current enemy and exactly its PlayerLoss from the player; with player CS
\* 15 against the cave's enemy (HP 5, CS 10) and roll 3 the entry is
\* {5, 2}: the enemy is at 0, the player 2 down, and the machine is at the
\* combat_won target.
C4_RoundAppliesTableEntry ==
    [][ pc = "combat" =>
          LET k == KeyPair(key'.RandNum,
                           clampedRatio(Player.CS, currentEnemy.CS))
          IN  /\ k \in DOMAIN CRT
                 => /\ Enemies'[node][enemyIdx].HP =
                          currentEnemy.HP - CRT[k].EnemyLoss
                    /\ Player'.HP = Player.HP - CRT[k].PlayerLoss
              /\ ( /\ node = "cave"
                   /\ Player.CS = 15
                   /\ currentEnemy.HP = 5
                   /\ key'.RandNum = 3 )
                 => /\ Enemies'[node][enemyIdx].HP = 0
                    /\ Player'.HP = Player.HP - 2
                    /\ CurrentNodeID' = "fork"
                    /\ pc' = "action"
      ]_vars

\* the worked example: one blow with roll 3 ends the cave's encounter
C4_Witness ==
    /\ pc = "action"
    /\ node = "cave"
    /\ Player.CS = 15
    /\ key = KeyPair(3, 5)
    /\ Enemies["cave"][1].HP = 0
    /\ CurrentNodeID = "fork"

\* C5: a blow whose key is absent from the table changes neither side's hit
\* points, raises no error, leaves the current node id unchanged and is
\* followed by another blow at the same enemy.
C5_LookupMissChangesNothing ==
    [][ ( /\ pc = "combat"
          /\ KeyPair(key'.RandNum, clampedRatio(Player.CS, currentEnemy.CS))
                \notin DOMAIN CRT )
        => /\ Enemies' = Enemies
           /\ Player' = Player
           /\ err' = err
           /\ CurrentNodeID' = CurrentNodeID
           /\ pc' = "combat"
           /\ enemyIdx' = enemyIdx
      ]_vars

\* skill differences on which normalizeCombatRatio is compared with the clamp
MaxRatio == 40

\* normalizeCombatRatio against the clamp, on every ratio of the range
normalizeClamps ==
    \A r \in (0 - MaxRatio)..MaxRatio :
        /\ normalizeCombatRatio(r) \in -11..11
        /\ (-11 < r /\ r < 11) => normalizeCombatRatio(r) = r
        /\ r <= -11 => normalizeCombatRatio(r) = -11
        /\ r >= 11 => normalizeCombatRatio(r) = 11

\* C6: normalizeCombatRatio maps every ratio into -11..11, leaves the
\* ratios strictly between -11 and 11 unchanged, sends every ratio <= -11
\* to -11 and every ratio >= 11 to 11; the key of every table lookup has
\* its roll in 0..9 and, as its ratio, that image of the skill difference.
C6_NormalizedKey ==
    [][ /\ normalizeClamps
        /\ pc = "combat" =>
              LET r == Player.CS - currentEnemy.CS
              IN  /\ key'.RandNum \in 0..9
                  /\ key'.ComRatio \in -11..11
                  /\ (-11 < r /\ r < 11) => key'.ComRatio = r
                  /\ r <= -11 => key'.ComRatio = -11
                  /\ r >= 11 => key'.ComRatio = 11
      ]_vars

\* a blow was struck across a skill gap beyond the table's domain
C6_Witness ==
    /\ pc = "combat"
    /\ Player.CS - currentEnemy.CS < -11
    /\ key.ComRatio = -11
    /\ currentEnemy.HP # Nodes[node].Enemies[enemyIdx].HP

----------------------------------------------------------------------------
(* Properties of the randomized branch *)

\* the set of integers of an outcome
conditionSet(outcome) ==
    { outcome.ConditionInt[i] : i \in 1..Len(outcome.ConditionInt) }

\* C7: the roll of a randomized-branch node is drawn once, in 0..9, when the
\* node is entered, and no prompt changes it; a prompt leaves the node only
\* on the number of an outcome whose set contains the roll, for that
\* outcome's NextNodeID; the number of an outcome whose set does not contain
\* the roll changes nothing and the prompt is repeated.  At the node with
\* outcomes [0..4 -> forest, 5..9 -> finish] and roll 7 the machine can only
\* move to finish.
C7_RandomBranchFollowsRoll ==
    [][ /\ (pc = "run" /\ pc' = "random") => randomNumber' \in 0..9
        /\ pc = "random" =>
              LET outcomes == Nodes[node].Outcomes
                  n        == menuSelection(input', Len(outcomes))
                  matches  == n # 0 /\ randomNumber \in conditionSet(outcomes[n])
              IN  /\ randomNumber' = randomNumber
                  /\ matches => /\ CurrentNodeID' = outcomes[n].NextNodeID
                                /\ pc' = "action"
                  /\ ~matches => /\ CurrentNodeID' = CurrentNodeID
                                 /\ pc' = "random"
                  /\ (node = "roll" /\ randomNumber = 7 /\ pc' # "random")
                        => CurrentNodeID' = "finish"
      ]_vars

\* roll 7 at the two-way branch took the machine to the second outcome
C7_Witness ==
    /\ pc = "action"
    /\ node = "roll"
    /\ randomNumber = 7
    /\ menuSelection(input, 2) = 2
    /\ CurrentNodeID = "finish"

\* index of the first outcome whose set contains the roll, 0 when none does
firstMatch(outcomes, number) ==
    IF \E i \in 1..Len(outcomes) : number \in conditionSet(outcomes[i])
    THEN CHOOSE i \in 1..Len(outcomes) :
            /\ number \in conditionSet(outcomes[i])
            /\ \A j \in 1..(i - 1) : number \notin conditionSet(outcomes[j])
    ELSE 0

\* C8 as stated: a randomized-branch node is only ever left for the
\* NextNodeID of the first outcome, in authored order, whose set contains
\* the roll.
C8_FirstMatchingOutcomeWins ==
    (pc = "action" /\ Nodes[node].Type = "random_roll")
        => LET outcomes == Nodes[node].Outcomes
               f        == firstMatch(outcomes, randomNumber)
           IN  f # 0 /\ CurrentNodeID = outcomes[f].NextNodeID

\* C8 amended: a randomized-branch node is left for the NextNodeID of the
\* outcome the player selected, whose set contains the roll; when several
\* sets contain the roll this is any of them, not only the first.
C8_SelectedMatchingOutcomeWins ==
    (pc = "action" /\ Nodes[node].Type = "random_roll")
        => LET outcomes == Nodes[node].Outcomes
               n        == menuSelection(input, Len(outcomes))
           IN  /\ n # 0
               /\ randomNumber \in conditionSet(outcomes[n])
               /\ CurrentNodeID = outcomes[n].NextNodeID

\* roll 3 is in all three sets of the fork and the third outcome was taken
C8_Witness ==
    /\ pc = "action"
    /\ node = "fork"
    /\ randomNumber = 3
    /\ firstMatch(Nodes[node].Outcomes, randomNumber) = 1
    /\ menuSelection(input, 3) = 3
    /\ CurrentNodeID = "odd"

----------------------------------------------------------------------------
(* Properties of the narrative node *)

\* the gates of a choice
abilityHeld(choice, player) ==
    /\ choice.RequiredDiscipline[1] \in DOMAIN player.KaiDisciplines
    /\ player.KaiDisciplines[choice.RequiredDiscipline[1]]

itemHeld(choice, player) ==
    choice.RequiredItem[1] \in { player.Items[i] : i \in 1..Len(player.Items) }

\* C9: the selection of a choice gated on an ability advances the machine
\* if and only if the player's ability map holds true for it, and the
\* selection of a choice gated on an item advances the machine if and only
\* if the player's items contain that name; a choice with both gates
\* satisfies both equivalences.
C9_GatedChoiceEligibility ==
    [][ pc = "story" =>
          LET choices == Nodes[node].Choices
              n       == menuSelection(input', Len(choices))
          IN  n # 0 =>
                LET choice   == choices[n]
                    advanced == /\ pc' = "action"
                                /\ CurrentNodeID' = choice.NextNodeID
                IN  /\ choice.RequiredDiscipline # Nil
                       => (advanced <=> abilityHeld(choice, Player))
                    /\ choice.RequiredItem # Nil
                       => (advanced <=> itemHeld(choice, Player))
      ]_vars

\* a choice is ineligible when the player fails a gate it carries
ineligible(choice, player) ==
    \/ choice.RequiredDiscipline # Nil /\ ~abilityHeld(choice, player)
    \/ choice.RequiredItem # Nil /\ ~itemHeld(choice, player)

\* C10: in a narrative node a line that is not a number, a number out of
\* range or the number of an ineligible choice changes neither the current
\* node id nor the player, raises no error and is followed by another
\* prompt of the same node; so does a line that is not a number or is out
\* of range in a randomized-branch node.
C10_InvalidInputReprompts ==
    [][ /\ pc = "story" =>
              LET choices == Nodes[node].Choices
                  n       == menuSelection(input', Len(choices))
              IN  (n = 0 \/ ineligible(choices[n], Player))
                     => /\ CurrentNodeID' = CurrentNodeID
                        /\ Player' = Player
                        /\ err' = err
                        /\ pc' = "story"
        /\ ( /\ pc = "random"
             /\ menuSelection(input', Len(Nodes[node].Outcomes)) = 0 )
                 => /\ CurrentNodeID' = CurrentNodeID
                    /\ Player' = Player
                    /\ err' = err
                    /\ pc' = "random"
      ]_vars

----------------------------------------------------------------------------
(* Properties of the traversal *)

\* C11: in a narrative node the number of a choice that carries no gate,
\* typed in range, always moves the machine to that choice's NextNodeID,
\* whatever the player's state.
C11_UngatedChoiceAdvances ==
    [][ pc = "story" =>
          LET choices == Nodes[node].Choices
              n       == menuSelection(input', Len(choices))
          IN  ( /\ n # 0
                /\ choices[n].RequiredDiscipline = Nil
                /\ choices[n].RequiredItem = Nil )
              => /\ CurrentNodeID' = choices[n].NextNodeID
                 /\ pc' = "action"
                 /\ err' = NoError
      ]_vars

\* a player with no ability and no item took the ungated first choice
C11_Witness ==
    /\ pc = "action"
    /\ node = "start"
    /\ menuSelection(input, Len(Nodes[node].Choices)) = 1
    /\ DOMAIN Player.KaiDisciplines = {}
    /\ Player.Items = <<>>
    /\ CurrentNodeID = "forest"

\* C12: when the node under the current id is a narrative node without
\* choices, the step that handles it sets the current node id to the
\* game-over sentinel, reads no line and leaves the player unchanged.
C12_NoChoicesGoesToGameOver ==
    [][ ( /\ pc = "run"
          /\ CurrentNodeID \in DOMAIN Nodes
          /\ Nodes[CurrentNodeID].Type = "story"
          /\ Len(Nodes[CurrentNodeID].Choices) = 0 )
        => /\ CurrentNodeID' = GameOver
           /\ Player' = Player
           /\ input' = <<>>
           /\ pc' \notin {"story", "random", "run"}
      ]_vars

\* the vault, a narrative node without choices, has been handled
C12_Witness ==
    /\ node = "vault"
    /\ Len(Nodes[node].Choices) = 0
    /\ CurrentNodeID = GameOver
    /\ input = <<>>

\* C13: the blow that defeats the last enemy of an encounter moves the
\* machine to the NextNodeID of the first outcome tagged combat_won, without
\* error; when the node has no such outcome it sets the current node id to
\* the game-over sentinel and an error is reported.
C13_CombatWonOrGameOver ==
    [][ ( /\ pc = "combat"
          /\ enemyIdx = Len(Enemies[node])
          /\ Enemies'[node][enemyIdx].HP <= 0 )
        => LET outcomes == Nodes[node].Outcomes
               won == { i \in 1..Len(outcomes) :
                          outcomes[i].Condition = "combat_won" }
           IN  IF won # {}
               THEN /\ \E i \in won :
                         /\ \A j \in won : i <= j
                         /\ CurrentNodeID' = outcomes[i].NextNodeID
                    /\ err' = NoError
               ELSE /\ CurrentNodeID' = GameOver
                    /\ err' # NoError
      ]_vars

\* the guard of the gate is beaten and the node has no combat_won outcome
C13_Witness ==
    /\ node = "gate"
    /\ \A j \in 1..Len(Enemies[node]) : Enemies[node][j].HP <= 0
    /\ \A i \in 1..Len(Nodes[node].Outcomes) :
          Nodes[node].Outcomes[i].Condition # "combat_won"
    /\ CurrentNodeID = GameOver
    /\ err = "no combat_won outcome found"

\* the errors handleStoryNode and handleEncounterNode return for a node that
\* is not authored as its kind requires
StructuralErrors == {"no choices available", "no combat_won outcome found"}

\* C14: a session that met a structural graph error goes on at the
\* game-over sentinel: it is halted only if the graph has no node under the
\* sentinel id.
C14_StructuralErrorContinues ==
    (err \in StructuralErrors /\ pc = "halted") => GameOver \notin DOMAIN Nodes

\* C15: a node of a kind other than story, encounter, random_roll and end
\* is answered with an error that halts the session in the same step,
\* with the current node id and the player unchanged and no line read;
\* nothing changes afterwards.
C15_UnknownKindHalts ==
    [][ /\ ( /\ pc = "run"
             /\ CurrentNodeID \in DOMAIN Nodes
             /\ Nodes[CurrentNodeID].Type
                   \notin {"story", "encounter", "random_roll", "end"} )
           => /\ pc' = "halted"
              /\ err' # NoError
              /\ CurrentNodeID' = CurrentNodeID
              /\ Player' = Player
              /\ input' = <<>>
        /\ (pc = "halted" /\ err = "unknown node type") => UNCHANGED vars
      ]_vars

\* the shop, a node of an unknown kind, has halted the session
C15_Witness ==
    /\ pc = "halted"
    /\ node = "odd"
    /\ Nodes[node].Type = "shop"
    /\ CurrentNodeID = "odd"
    /\ err = "unknown node type"

\* C16: when no node is authored under the current node id, the loop
\* reports an error and halts in the same step: no node is handled, no line
\* is read, the player is unchanged, and nothing changes afterwards.
C16_MissingNodeHalts ==
    [][ /\ (pc = "run" /\ CurrentNodeID \notin DOMAIN Nodes)
           => /\ pc' = "halted"
              /\ err' # NoError
              /\ node' = node
              /\ visits' = visits
              /\ input' = input
              /\ Player' = Player
              /\ CurrentNodeID' = CurrentNodeID
        /\ (pc = "halted" /\ err = "node not found") => UNCHANGED vars
      ]_vars

\* the choice that names no node was taken and the lookup failed
C16_Witness ==
    /\ pc = "halted"
    /\ CurrentNodeID = "nowhere"
    /\ CurrentNodeID \notin DOMAIN Nodes
    /\ node = "start"
    /\ err = "node not found"

\* C17: handling a node of kind end ends the session in the same step with
\* the current node id and the player unchanged and no line read; once the
\* session has ended nothing changes.
C17_TerminalAbsorbing ==
    [][ /\ ( /\ pc = "run"
             /\ CurrentNodeID \in DOMAIN Nodes
             /\ Nodes[CurrentNodeID].Type = "end" )
           => /\ pc' = "ended"
              /\ CurrentNodeID' = CurrentNodeID
              /\ Player' = Player
              /\ input' = <<>>
        /\ pc = "ended" => UNCHANGED vars
      ]_vars

\* the session has ended at the node finish
C17_Witness ==
    /\ pc = "ended"
    /\ node = "finish"
    /\ CurrentNodeID = "finish"
    /\ Nodes[node].Type = "end"

----------------------------------------------------------------------------
(* Properties of the graph and of the player *)

\* C18: outside a fight every enemy stored in the graph has the hit points
\* and combat skill it was loaded with (the table is never written: it is
\* the constant CRT).
C18_GraphNeverChanges ==
    pc # "combat" => \A id \in NodeIDs : Enemies[id] = Nodes[id].Enemies

\* C19: the player changes only in a blow, which changes nothing but the
\* hit points and does not raise them, and at the action prompt on a
\* command other than skip; the steps of narrative, randomized-branch and
\* terminal nodes and of the traversal loop leave every field unchanged,
\* and so does the command skip.
C19_PlayerFrame ==
    [][ /\ pc \in {"run", "story", "random", "halted", "ended"}
           => Player' = Player
        /\ pc = "combat"
           => /\ Player' = [Player EXCEPT !.HP = Player'.HP]
              /\ Player'.HP <= Player.HP
        /\ (pc = "action" /\ TrimSpace(input') = Skip) => Player' = Player
      ]_vars

\* a fight has cost the player hit points and skip was typed afterwards
C19_Witness ==
    /\ pc = "run"
    /\ node \in DOMAIN Nodes
    /\ Nodes[node].Type = "encounter"
    /\ TrimSpace(input) = Skip
    /\ Player.HP < 8
    /\ Player.HP # 2
    /\ \E p \in InitPlayers : Player = [p EXCEPT !.HP = Player.HP]

----------------------------------------------------------------------------
(* Termination of the encounter *)

\* the blow for the value randNum costs one side at least one hit point
roundHits(randNum) ==
    LET result == makeCombatResult(Player.CS, Enemies[node][enemyIdx].CS,
                                   randNum)
    IN  result.EnemyLoss > 0 \/ result.PlayerLoss > 0

\* a blow of handleEncounterNode that costs one side at least one hit point
CombatHit ==
    \E randNum \in 0..9 :
        /\ pc = "combat"
        /\ roundHits(randNum)
        /\ CombatRound(randNum)

\* the sessions in which every blow costs one side at least one hit point
NextHit ==
    \/ RunNodeMissing
    \/ EnterStory
    \/ EnterEncounter
    \/ EnterRandom
    \/ HandleEnd
    \/ HandleUnknown
    \/ \E line \in Inputs : StoryPrompt(line)
    \/ CombatHit
    \/ \E line \in Inputs : RandomPrompt(line)
    \/ \E line \in ActionLines : PlayerAction(line)

\* the combat loop reads no input: the session thread always strikes the
\* next blow
SpecHit == Init /\ [][NextHit]_vars /\ WF_vars(CombatHit)

\* C20: when every blow costs one side at least one hit point, a fight
\* that has begun ends; after a blow the loop goes on against the same enemy
\* exactly when both that enemy and the player are above 0, and the
\* encounter is left with the current node id at the target of an outcome
\* tagged combat_won or at the game-over sentinel.
C20_EncounterTerminates ==
    /\ [][ pc = "combat" =>
             /\ (pc' = "combat" /\ enemyIdx' = enemyIdx)
                   <=> (Enemies'[node][enemyIdx].HP > 0 /\ Player'.HP > 0)
             /\ pc' # "combat"
                   => \/ CurrentNodeID' = GameOver
                      \/ \E o \in 1..Len(Nodes[node].Outcomes) :
                            /\ Nodes[node].Outcomes[o].Condition = "combat_won"
                            /\ CurrentNodeID' =
                                  Nodes[node].Outcomes[o].NextNodeID
         ]_vars
    /\ (pc = "combat") ~> (pc # "combat")

\* a fight of several blows against one enemy has ended
C20_Witness ==
    /\ pc \in {"action", "halted"}
    /\ node = "cave"
    /\ Enemies[node][1].HP \in {-2, 1}
    /\ CurrentNodeID \in {"fork", GameOver}

----------------------------------------------------------------------------
(* Provenance of the current node id *)

\* the NextNodeID values authored in the choices and outcomes of node id
authoredTargets(id) ==
    {Nodes[id].Choices[i].NextNodeID : i \in 1..Len(Nodes[id].Choices)}
       \cup {Nodes[id].Outcomes[i].NextNodeID :
                i \in 1..Len(Nodes[id].Outcomes)}

\* C21: the session starts at the first authored node; a step leaves the
\* current node id alone or sets it to the game-over sentinel or to a
\* NextNodeID authored in the node being handled, so between two nodes it is
\* a target authored in the node handled last, or the sentinel; the action
\* step never changes it.
C21_CurrentNodeProvenance ==
    /\ [] /\ visits = 0 => CurrentNodeID = Config[1].ID
          /\ pc \in {"story", "combat", "random", "ended"}
                => CurrentNodeID = node
          /\ (visits > 0 /\ pc \in {"run", "action"})
                => CurrentNodeID \in authoredTargets(node) \cup {GameOver}
          /\ (visits > 0 /\ pc = "halted")
                => CurrentNodeID \in
                      authoredTargets(node) \cup {GameOver, node}
    /\ [][ /\ \/ CurrentNodeID' = CurrentNodeID
              \/ CurrentNodeID' = GameOver
              \/ /\ CurrentNodeID \in DOMAIN Nodes
                 /\ CurrentNodeID' \in authoredTargets(CurrentNodeID)
           /\ pc = "action" => CurrentNodeID' = CurrentNodeID
         ]_vars

\* after an action command the session stands at a target authored in the
\* encounter just won, which is neither the first node nor the sentinel
C21_Witness ==
    /\ pc = "run"
    /\ node = "forest"
    /\ CurrentNodeID = "roll"
    /\ input \in ActionLines

----------------------------------------------------------------------------
(* The IsKilled flag *)

\* what makeCombatResult returns for key k from a table that differs from
\* CRT only in IsKilled values and holds the value b at k
resultWithIsKilled(k, b) ==
    IF k \notin DOMAIN CRT
    THEN DamagePair(0, 0, FALSE)
    ELSE [CRT[k] EXCEPT !.IsKilled = b]

\* C22: the IsKilled flag has no effect: whatever IsKilled value the table
\* holds at the key looked up, the blow leaves the enemy's hit points, the
\* player's hit points and the current node id as the blow of this session
\* does, so two sessions over the same graph, rolls and inputs whose tables
\* differ only in IsKilled pass through the same sequence of them.
C22_IsKilledHasNoEffect ==
    [][ pc = "combat" =>
          \A b \in BOOLEAN :
             LET result   == resultWithIsKilled(key', b)
                 enemyHP  == currentEnemy.HP - result.EnemyLoss
                 playerHP == Player.HP - result.PlayerLoss
                 outcome  == roundOutcome(enemyHP, playerHP)
                 exit     == encounterExit(Nodes[node].Outcomes)
             IN  /\ Enemies' = [Enemies EXCEPT ![node][enemyIdx].HP = enemyHP]
                 /\ Player' = [Player EXCEPT !.HP = playerHP]
                 /\ CurrentNodeID' =
                       IF outcome = "player_defeated" THEN GameOver
                       ELSE IF /\ outcome = "enemy_defeated"
                               /\ enemyIdx >= Len(Enemies[node])
                            THEN exit.next
                            ELSE CurrentNodeID
      ]_vars

\* a blow has been struck whose table entry has IsKilled set, and the enemy
\* lost that entry's EnemyLoss and no more
C22_Witness ==
    /\ pc = "action"
    /\ node = "cave"
    /\ key \in DOMAIN CRT
    /\ CRT[key].IsKilled
    /\ Enemies[node][1].HP = Nodes[node].Enemies[1].HP - CRT[key].EnemyLoss

====
